---- MODULE Spec2Model ----
(***************************************************************************)
(* predictive_app.py: a Streamlit script that is re-run from top to bottom *)
(* on every user event of a session.  A script run loads the two models    *)
(* (cached per process), initialises the session state, reads the          *)
(* widgets, runs the "Run Prediction" handler when that button triggered   *)
(* the run, shows the stored predictions, and runs the "Submit Feedback"   *)
(* handler when that button triggered the run.  pc[s] is the line the      *)
(* script run of session s is about to execute.                            *)
(***************************************************************************)
EXTENDS Integers, Sequences, FiniteSets, TLC

VARIABLES
    models,         \* st.cache_resource entry of load_models: None or the loaded pair
    loads,          \* number of executions of the body of load_models
    log,            \* monitoring log: the records appended by log_prediction
    pc,             \* per session: position of the script run ("new", "idle", "l18", ...)
    trigger,        \* per session: what triggered the current/last script run
    session_state,  \* per session: st.session_state restricted to the five result keys
    inputs,         \* per session: values of the four sidebar widgets
    feedback,       \* per session: values of the four feedback widgets
    locals,         \* per session: old_pred, new_pred, latency_ms of the running handler
    out,            \* per session: what the current/last script run has shown
    calls,          \* per session: log_prediction calls of the current/last script run
    lastRun,        \* per session: values computed by the last completed Run Prediction
    submits,        \* per session: Submit Feedback runs taken while READY, and whether
                    \* one of their appends has failed
    pre             \* per session: session_state when the running script run started

vars == <<models, loads, log, pc, trigger, session_state, inputs, feedback,
          locals, out, calls, lastRun, submits, pre>>

----------------------------------------------------------------------------
(* Bounds and sampled input domains *)

\* Submit Feedback is offered while the log has room for two more records
MaxLog == 4

Sessions == {"s1", "s2"}
SingleSession == {"s1"}

\* sampled values of the four sidebar widgets (lines 35-38)
InputRecords ==
    { [StartHour |-> 8, TurnAroundTime |-> 15, DisplayValue |-> "OR 1",
       ProposedProcedure |-> "COLOSCP - COLONOSCOPY;"],
      [StartHour |-> 23, TurnAroundTime |-> 15, DisplayValue |-> "OR 1",
       ProposedProcedure |-> "COLOSCP - COLONOSCOPY;"],
      [StartHour |-> 8, TurnAroundTime |-> 15, DisplayValue |-> "Endo 1",
       ProposedProcedure |-> "COLOSCP - COLONOSCOPY;"] }

\* the options of the two select boxes (lines 37-38) and sampled positions of
\* the two sliders (lines 35-36): ends of the range, the defaults, and values
\* whose digits are a prefix or suffix of another's
DisplayValues ==
    {"OR 1", "OR 2", "OR 3", "OR 4", "OR 5", "OR 6", "OR 7", "OR 8", "OR 9",
     "OR 10", "OR 11", "OR 12", "Endo 1", "Endo 2", "Endo 3", "Endo 4"}

ProposedProcedures ==
    {"COLOSCP - COLONOSCOPY;", "GASTSCP - GASTROSCOPY;",
     "GASTCOL - GASTROSCOPY & COLONOSCOPY;", "VIDEO LAPAROSCOPIC CHOLECYSTECTOMY;"}

StartHours == {0, 1, 8, 11, 23}
TurnAroundTimes == {0, 1, 15, 115, 120}

SummaryInputs ==
    [StartHour : StartHours, TurnAroundTime : TurnAroundTimes,
     DisplayValue : DisplayValues, ProposedProcedure : ProposedProcedures]

\* sampled values of the four feedback widgets (lines 84-89)
FeedbackRecords ==
    { [feedback_score |-> 4, feedback_text |-> "",
       feedback_score_v2 |-> 4, feedback_text_v2 |-> ""],
      [feedback_score |-> 5, feedback_text |-> "great",
       feedback_score_v2 |-> 3, feedback_text_v2 |-> "meh"] }

\* sampled wall-clock measurements (line 63), in milliseconds
Latencies == {12}

----------------------------------------------------------------------------
(* Values *)

\* Python None, and a float value x (told apart from None by its length)
None == <<>>
Float(x) == <<x>>

ResultKeys == {"pred_ready", "old_pred", "new_pred", "latency_ms", "input_summary"}

NoKeys == [k \in {} |-> None]

DefaultInputs ==
    [StartHour |-> 8, TurnAroundTime |-> 15, DisplayValue |-> "OR 1",
     ProposedProcedure |-> "COLOSCP - COLONOSCOPY;"]

DefaultFeedback ==
    [feedback_score |-> 4, feedback_text |-> "",
     feedback_score_v2 |-> 4, feedback_text_v2 |-> ""]

\* no local of the handler is bound yet
NoLocals == [k \in {} |-> None]

\* no Submit Feedback taken while READY yet; the count is kept only as long as
\* no append of the session has failed
NoSubmits == [count |-> 0, failed |-> FALSE]

NoOutput == [warning |-> 0, success |-> 0, info |-> 0, exception |-> "", shown |-> None]

----------------------------------------------------------------------------
(* The models *)

LoadedModels == <<"baseline_model_v1.pkl", "improved_model_v2.pkl">>

old_model == models[1]
new_model == models[2]

FieldScore(X, f) ==
    IF f \notin DOMAIN X THEN 0
    ELSE CASE f = "StartHour" -> X[f]
           [] f = "TurnAroundTime" -> X[f]
           [] f = "DisplayValue" -> IF X[f] = "OR 1" THEN 200 ELSE 400
           [] f = "ProposedProcedure" -> IF X[f] = "COLOSCP - COLONOSCOPY;" THEN 1000 ELSE 3000

\* model.predict(X)[0]: a deterministic score of the feature record the model is given
Predict(model, X) ==
    (IF model = "baseline_model_v1.pkl" THEN 0 ELSE 5000)
    + FieldScore(X, "StartHour") + FieldScore(X, "TurnAroundTime")
    + FieldScore(X, "DisplayValue") + FieldScore(X, "ProposedProcedure")

\* the baseline model is handed the whole input_df
InputV1AllFields(input_df) == input_df

InputV1(input_df) == [f \in {"DisplayValue", "ProposedProcedure"} |-> input_df[f]]

InputV2(input_df) ==
    [f \in {"StartHour", "TurnAroundTime", "DisplayValue", "ProposedProcedure"} |-> input_df[f]]

\* the f-string without its TurnAroundTime field
FormatSummaryNoTurnAround(w) ==
    "StartHour=" \o ToString(w.StartHour)
    \o ", DisplayValue=" \o w.DisplayValue
    \o ", ProposedProcedure=" \o w.ProposedProcedure

FormatSummary(w) ==
    "StartHour=" \o ToString(w.StartHour)
    \o ", TurnAroundTime=" \o ToString(w.TurnAroundTime)
    \o ", DisplayValue=" \o w.DisplayValue
    \o ", ProposedProcedure=" \o w.ProposedProcedure

----------------------------------------------------------------------------
(* Session state *)

\* the key is set without the "not in st.session_state" test
InitKeyOverwrites(ss, k, v) == (k :> v) @@ ss

InitKey(ss, k, v) == IF k \in DOMAIN ss THEN ss ELSE (k :> v) @@ ss

SetKey(ss, k, v) == (k :> v) @@ ss

\* line 73: if st.session_state["pred_ready"]
ShowIfReady(ss) == ss["pred_ready"]

SubmitNeverRejected(ss) == FALSE

\* line 93: if not st.session_state["pred_ready"]
SubmitNotReady(ss) == ~ss["pred_ready"]

----------------------------------------------------------------------------
Init ==
    /\ models = None
    /\ loads = 0
    /\ log = <<>>
    /\ pc = [s \in Sessions |-> "new"]
    /\ trigger = [s \in Sessions |-> "none"]
    /\ session_state = [s \in Sessions |-> NoKeys]
    /\ inputs = [s \in Sessions |-> DefaultInputs]
    /\ feedback = [s \in Sessions |-> DefaultFeedback]
    /\ locals = [s \in Sessions |-> NoLocals]
    /\ out = [s \in Sessions |-> NoOutput]
    /\ calls = [s \in Sessions |-> <<>>]
    /\ lastRun = [s \in Sessions |-> None]
    /\ submits = [s \in Sessions |-> NoSubmits]
    /\ pre = [s \in Sessions |-> NoKeys]

----------------------------------------------------------------------------
(* User events: each one triggers a script run of the session *)

StartRun(s, trig) ==
    /\ pc' = [pc EXCEPT ![s] = "l18"]
    /\ trigger' = [trigger EXCEPT ![s] = trig]
    /\ out' = [out EXCEPT ![s] = NoOutput]
    /\ calls' = [calls EXCEPT ![s] = <<>>]
    /\ locals' = [locals EXCEPT ![s] = NoLocals]
    /\ pre' = [pre EXCEPT ![s] = session_state[s]]
    /\ UNCHANGED <<models, loads, log, session_state, lastRun, submits>>

\* the sidebar widgets and the Run Prediction button were drawn by the last run
InputsRendered(s) == pc[s] = "idle" /\ out[s].exception # "load"

\* the feedback widgets and the Submit Feedback button were drawn by the last run
FeedbackRendered(s) == pc[s] = "idle" /\ out[s].exception \in {"", "log"}

\* Streamlit hands a re-run the current value of every widget, so one re-run
\* may see several widgets changed since the last one

OpenPage(s) ==
    /\ pc[s] = "new"
    /\ StartRun(s, "none")
    /\ UNCHANGED <<inputs, feedback>>

ChangeInput(s) ==
    /\ InputsRendered(s)
    /\ \E w \in InputRecords :
          /\ w # inputs[s]
          /\ inputs' = [inputs EXCEPT ![s] = w]
    /\ StartRun(s, "none")
    /\ UNCHANGED feedback

ChangeFeedback(s) ==
    /\ FeedbackRendered(s)
    /\ \E w \in FeedbackRecords :
          /\ w # feedback[s]
          /\ feedback' = [feedback EXCEPT ![s] = w]
    /\ StartRun(s, "none")
    /\ UNCHANGED inputs

ClickRunPrediction(s) ==
    /\ InputsRendered(s)
    /\ StartRun(s, "run")
    /\ UNCHANGED <<inputs, feedback>>

ClickSubmitFeedback(s) ==
    /\ FeedbackRendered(s)
    /\ Len(log) + 2 <= MaxLog
    /\ StartRun(s, "submit")
    /\ UNCHANGED <<inputs, feedback>>

----------------------------------------------------------------------------
(* End of a script run *)

Finish(s) ==
    /\ pc' = [pc EXCEPT ![s] = "idle"]
    /\ UNCHANGED <<locals, pre>>

\* an uncaught exception stops the script run and is shown on the page
Raise(s, exc) ==
    /\ pc' = [pc EXCEPT ![s] = "idle"]
    /\ out' = [out EXCEPT ![s].exception = exc]
    /\ UNCHANGED <<locals, pre>>

----------------------------------------------------------------------------
(* Lines 12-18: load_models under st.cache_resource *)

\* load_models without the st.cache_resource decorator: every script run loads
LoadModelsUncached(s) ==
    /\ pc[s] = "l18"
    /\ models # None
    /\ models' = LoadedModels
    /\ loads' = loads + 1
    /\ pc' = [pc EXCEPT ![s] = "l21"]
    /\ UNCHANGED <<log, trigger, session_state, inputs, feedback,
                   locals, out, calls, lastRun, submits, pre>>

LoadModelsCached(s) ==
    /\ pc[s] = "l18"
    /\ models # None
    /\ pc' = [pc EXCEPT ![s] = "l21"]
    /\ UNCHANGED <<models, loads, log, trigger, session_state, inputs, feedback,
                   locals, out, calls, lastRun, submits, pre>>

LoadModels(s) ==
    /\ pc[s] = "l18"
    /\ models = None
    /\ models' = LoadedModels
    /\ loads' = loads + 1
    /\ pc' = [pc EXCEPT ![s] = "l21"]
    /\ UNCHANGED <<log, trigger, session_state, inputs, feedback,
                   locals, out, calls, lastRun, submits, pre>>

\* the exception of joblib.load is caught and the script run goes on
LoadModelsFailsCaught(s) ==
    /\ pc[s] = "l18"
    /\ models = None
    /\ loads' = loads + 1
    /\ pc' = [pc EXCEPT ![s] = "l21"]
    /\ UNCHANGED <<models, log, trigger, session_state, inputs, feedback,
                   locals, out, calls, lastRun, submits, pre>>

LoadModelsFails(s) ==
    /\ pc[s] = "l18"
    /\ models = None
    /\ loads' = loads + 1
    /\ Raise(s, "load")
    /\ UNCHANGED <<models, log, trigger, session_state, inputs, feedback, calls, lastRun, submits>>

----------------------------------------------------------------------------
(* Lines 21-30: initialise session state *)

\* old_pred and new_pred are reset by every script run
InitSessionKeysResetsPreds(ss) ==
    SetKey(SetKey(InitKey(InitKey(InitKey(ss,
        "pred_ready", FALSE), "latency_ms", None), "input_summary", ""),
        "old_pred", None), "new_pred", None)

InitSessionKeys(ss) ==
    InitKey(InitKey(InitKey(InitKey(InitKey(ss,
        "pred_ready", FALSE), "old_pred", None), "new_pred", None),
        "latency_ms", None), "input_summary", "")

InitSessionState(s) ==
    /\ pc[s] = "l21"
    /\ session_state' = [session_state EXCEPT ![s] = InitSessionKeys(session_state[s])]
    /\ pc' = [pc EXCEPT ![s] = "l52"]
    /\ UNCHANGED <<models, loads, log, trigger, inputs, feedback,
                   locals, out, calls, lastRun, submits, pre>>

----------------------------------------------------------------------------
(* Lines 52-70: Run Prediction *)

\* the handler is not under the button test
RunPredictionAlways(s) == TRUE

\* line 52: if st.button("Run Prediction")
RunPredictionClicked(s) == trigger[s] = "run"

SkipRunPrediction(s) ==
    /\ pc[s] = "l52"
    /\ ~RunPredictionClicked(s)
    /\ pc' = [pc EXCEPT ![s] = "l73"]
    /\ UNCHANGED <<models, loads, log, trigger, session_state, inputs, feedback,
                   locals, out, calls, lastRun, submits, pre>>

\* the baseline prediction is written to the session state as soon as it is computed
PredictOldStores(s) ==
    /\ pc[s] = "l52"
    /\ trigger[s] = "run"
    /\ locals' = [locals EXCEPT ![s] =
          ("old_pred" :> Predict(old_model, InputV1(inputs[s]))) @@ @]
    /\ session_state' = [session_state EXCEPT ![s] =
          ("old_pred" :> <<Predict(old_model, InputV1(inputs[s]))>>) @@ @]
    /\ pc' = [pc EXCEPT ![s] = "l61"]
    /\ UNCHANGED <<models, loads, log, trigger, inputs, feedback,
                   out, calls, lastRun, submits, pre>>

PredictOld(s) ==
    /\ pc[s] = "l52"
    /\ RunPredictionClicked(s)
    /\ locals' = [locals EXCEPT ![s] =
          ("old_pred" :> Predict(old_model, InputV1(inputs[s]))) @@ @]
    /\ pc' = [pc EXCEPT ![s] = "l61"]
    /\ UNCHANGED <<models, loads, log, trigger, session_state, inputs, feedback,
                   out, calls, lastRun, submits, pre>>

PredictNew(s) ==
    /\ pc[s] = "l61"
    /\ locals' = [locals EXCEPT ![s] =
          ("new_pred" :> Predict(new_model, InputV2(inputs[s]))) @@ @]
    /\ pc' = [pc EXCEPT ![s] = "l63"]
    /\ UNCHANGED <<models, loads, log, trigger, session_state, inputs, feedback,
                   out, calls, lastRun, submits, pre>>

\* predict raises: the script run stops at line 57 or 61, before the feedback
\* widgets and the Submit Feedback button are drawn
PredictFails(s) ==
    /\ \/ pc[s] = "l52" /\ RunPredictionClicked(s)
       \/ pc[s] = "l61"
    /\ Raise(s, "predict")
    /\ UNCHANGED <<models, loads, log, trigger, session_state, inputs, feedback,
                   calls, lastRun, submits>>

MeasureLatency(s) ==
    /\ pc[s] = "l63"
    /\ \E ms \in Latencies :
          locals' = [locals EXCEPT ![s] = ("latency_ms" :> ms) @@ @]
    /\ pc' = [pc EXCEPT ![s] = "l66"]
    /\ UNCHANGED <<models, loads, log, trigger, session_state, inputs, feedback,
                   out, calls, lastRun, submits, pre>>

\* pred_ready set before the other results are stored
StoreOldPredSetsReady(ss, l) ==
    ("pred_ready" :> TRUE) @@ ("old_pred" :> <<l.old_pred>>) @@ ss

\* every run adds its baseline prediction to the ones stored before
StoreOldPredAccumulates(ss, l) ==
    SetKey(ss, "old_pred", Append(ss["old_pred"], l.old_pred))

StoreOldPred(ss, l) == SetKey(ss, "old_pred", Float(l.old_pred))
StoreNewPred(ss, l) == SetKey(ss, "new_pred", Float(l.new_pred))
StoreLatency(ss, l) == SetKey(ss, "latency_ms", Float(l.latency_ms))
\* the summary is stored only while it is still empty
StoreInputSummaryOnce(ss, w) ==
    IF ss["input_summary"] = "" THEN ("input_summary" :> FormatSummary(w)) @@ ss ELSE ss

StoreInputSummary(ss, w) == SetKey(ss, "input_summary", FormatSummary(w))
StorePredReady(ss) == SetKey(ss, "pred_ready", TRUE)

\* the results are written to a module-level dict that every session reads
CommitStepShared(s, at, next, ss) ==
    /\ pc[s] = at
    /\ session_state' = [t \in Sessions |->
          IF t = s \/ DOMAIN session_state[t] = ResultKeys THEN ss ELSE session_state[t]]
    /\ pc' = [pc EXCEPT ![s] = next]
    /\ UNCHANGED <<models, loads, log, trigger, inputs, feedback, locals, out, calls, pre>>

CommitStep(s, at, next, ss) ==
    /\ pc[s] = at
    /\ session_state' = [session_state EXCEPT ![s] = ss]
    /\ pc' = [pc EXCEPT ![s] = next]
    /\ UNCHANGED <<models, loads, log, trigger, inputs, feedback, locals, out, calls, pre>>

\* the handler also puts the feedback widgets back to their defaults
CommitOldPredResetsFeedback(s) ==
    /\ pc[s] = "l66"
    /\ session_state' = [session_state EXCEPT ![s] =
          StoreOldPred(session_state[s], locals[s])]
    /\ feedback' = [feedback EXCEPT ![s] = DefaultFeedback]
    /\ pc' = [pc EXCEPT ![s] = "l67"]
    /\ UNCHANGED <<models, loads, log, trigger, inputs, locals, out, calls,
                   lastRun, submits, pre>>

CommitOldPred(s) ==
    /\ CommitStep(s, "l66", "l67", StoreOldPred(session_state[s], locals[s]))
    /\ UNCHANGED <<lastRun, submits>>

CommitNewPred(s) ==
    /\ CommitStep(s, "l67", "l68", StoreNewPred(session_state[s], locals[s]))
    /\ UNCHANGED <<lastRun, submits>>

CommitLatency(s) ==
    /\ CommitStep(s, "l68", "l69", StoreLatency(session_state[s], locals[s]))
    /\ UNCHANGED <<lastRun, submits>>

CommitInputSummary(s) ==
    /\ CommitStep(s, "l69", "l70", StoreInputSummary(session_state[s], inputs[s]))
    /\ UNCHANGED <<lastRun, submits>>

\* a new prediction starts a fresh monitoring log
CommitPredReadyResetsLog(s) ==
    /\ pc[s] = "l70"
    /\ session_state' = [session_state EXCEPT ![s] = StorePredReady(session_state[s])]
    /\ log' = <<>>
    /\ pc' = [pc EXCEPT ![s] = "l73"]
    /\ lastRun' = [lastRun EXCEPT ![s] =
          <<[old_pred |-> Float(locals[s].old_pred),
             new_pred |-> Float(locals[s].new_pred),
             latency_ms |-> Float(locals[s].latency_ms),
             input_summary |-> FormatSummary(inputs[s])]>>]
    /\ UNCHANGED <<models, loads, trigger, inputs, feedback, locals, out, calls,
                   submits, pre>>

\* line 70 completes the handler; lastRun records what this run computed
CommitPredReady(s) ==
    /\ CommitStep(s, "l70", "l73", StorePredReady(session_state[s]))
    /\ lastRun' = [lastRun EXCEPT ![s] =
          <<[old_pred |-> Float(locals[s].old_pred),
             new_pred |-> Float(locals[s].new_pred),
             latency_ms |-> Float(locals[s].latency_ms),
             input_summary |-> FormatSummary(inputs[s])]>>]
    /\ UNCHANGED submits

----------------------------------------------------------------------------
(* Lines 73-79: show the predictions if ready *)

ShowPredictions(s) ==
    /\ pc[s] = "l73"
    /\ ShowIfReady(session_state[s])
    /\ out' = [out EXCEPT ![s].shown =
          <<session_state[s]["old_pred"], session_state[s]["new_pred"],
            session_state[s]["latency_ms"]>>]
    /\ pc' = [pc EXCEPT ![s] = "l92"]
    /\ UNCHANGED <<models, loads, log, trigger, session_state, inputs, feedback,
                   locals, calls, lastRun, submits, pre>>

ShowInfo(s) ==
    /\ pc[s] = "l73"
    /\ ~ShowIfReady(session_state[s])
    /\ out' = [out EXCEPT ![s].info = @ + 1]
    /\ pc' = [pc EXCEPT ![s] = "l92"]
    /\ UNCHANGED <<models, loads, log, trigger, session_state, inputs, feedback,
                   locals, calls, lastRun, submits, pre>>

----------------------------------------------------------------------------
(* Lines 92-120: Submit Feedback *)

SubmitFeedbackClicked(s) == trigger[s] = "submit"

LogRecord(version, type, summary, prediction, latency, score, text) ==
    [model_version |-> version, model_type |-> type, input_summary |-> summary,
     prediction |-> prediction, latency_ms |-> latency,
     feedback_score |-> score, feedback_text |-> text]

RecordV1(ss, fb) ==
    LogRecord("v1_old", "baseline", ss["input_summary"], ss["old_pred"],
              ss["latency_ms"], fb.feedback_score, fb.feedback_text)

\* the v2 call pasted from the v1 call with the feedback arguments left as they were
RecordV2WithV1Feedback(ss, fb) ==
    LogRecord("v2_new", "improved", ss["input_summary"], ss["new_pred"],
              ss["latency_ms"], fb.feedback_score, fb.feedback_text)

RecordV2(ss, fb) ==
    LogRecord("v2_new", "improved", ss["input_summary"], ss["new_pred"],
              ss["latency_ms"], fb.feedback_score_v2, fb.feedback_text_v2)

\* log_utils.log_prediction: appends one record to the monitoring log
log_prediction(lg, rec) == Append(lg, rec)

\* log_utils.log_prediction raising: nothing is appended
log_prediction_raises(lg, rec) == lg

Call(rec, ok) == [record |-> rec, ok |-> ok]

\* one more Submit Feedback run has passed the test of line 93
SubmitTaken(sb) == IF sb.failed THEN sb ELSE [sb EXCEPT !.count = @ + 1]

\* an append of the session has failed: its submits are no longer counted
AppendFailed(sb) == [count |-> 0, failed |-> TRUE]

SkipSubmitFeedback(s) ==
    /\ pc[s] = "l92"
    /\ ~SubmitFeedbackClicked(s)
    /\ Finish(s)
    /\ UNCHANGED <<models, loads, log, trigger, session_state, inputs, feedback,
                   out, calls, lastRun, submits>>

WarnNotReady(s) ==
    /\ pc[s] = "l92"
    /\ SubmitFeedbackClicked(s)
    /\ SubmitNotReady(session_state[s])
    /\ out' = [out EXCEPT ![s].warning = @ + 1]
    /\ Finish(s)
    /\ UNCHANGED <<models, loads, log, trigger, session_state, inputs, feedback,
                   calls, lastRun, submits>>

LogV1(s) ==
    /\ pc[s] = "l92"
    /\ SubmitFeedbackClicked(s)
    /\ ~SubmitNotReady(session_state[s])
    /\ LET rec == RecordV1(session_state[s], feedback[s]) IN
          /\ log' = log_prediction(log, rec)
          /\ calls' = [calls EXCEPT ![s] = Append(@, Call(rec, TRUE))]
    /\ submits' = [submits EXCEPT ![s] = SubmitTaken(@)]
    /\ pc' = [pc EXCEPT ![s] = "l107"]
    /\ UNCHANGED <<models, loads, trigger, session_state, inputs, feedback,
                   locals, out, lastRun, pre>>

LogV1Fails(s) ==
    /\ pc[s] = "l92"
    /\ SubmitFeedbackClicked(s)
    /\ ~SubmitNotReady(session_state[s])
    /\ LET rec == RecordV1(session_state[s], feedback[s]) IN
          /\ log' = log_prediction_raises(log, rec)
          /\ calls' = [calls EXCEPT ![s] = Append(@, Call(rec, FALSE))]
    /\ submits' = [submits EXCEPT ![s] = AppendFailed(@)]
    /\ Raise(s, "log")
    /\ UNCHANGED <<models, loads, trigger, session_state, inputs, feedback, lastRun>>

LogV2(s) ==
    /\ pc[s] = "l107"
    /\ LET rec == RecordV2(session_state[s], feedback[s]) IN
          /\ log' = log_prediction(log, rec)
          /\ calls' = [calls EXCEPT ![s] = Append(@, Call(rec, TRUE))]
    /\ pc' = [pc EXCEPT ![s] = "l117"]
    /\ UNCHANGED <<models, loads, trigger, session_state, inputs, feedback,
                   locals, out, lastRun, submits, pre>>

\* the exception of the v2 call is caught and ignored
LogV2FailsCaught(s) ==
    /\ pc[s] = "l107"
    /\ calls' = [calls EXCEPT ![s] =
          Append(@, [record |-> RecordV2(session_state[s], feedback[s]), ok |-> FALSE])]
    /\ submits' = [submits EXCEPT ![s] = AppendFailed(@)]
    /\ pc' = [pc EXCEPT ![s] = "l117"]
    /\ UNCHANGED <<models, loads, log, trigger, session_state, inputs, feedback,
                   locals, out, lastRun, pre>>

LogV2Fails(s) ==
    /\ pc[s] = "l107"
    /\ LET rec == RecordV2(session_state[s], feedback[s]) IN
          /\ log' = log_prediction_raises(log, rec)
          /\ calls' = [calls EXCEPT ![s] = Append(@, Call(rec, FALSE))]
    /\ submits' = [submits EXCEPT ![s] = AppendFailed(@)]
    /\ Raise(s, "log")
    /\ UNCHANGED <<models, loads, trigger, session_state, inputs, feedback, lastRun>>

\* the stored prediction is used up by the feedback given on it
ShowSuccessConsumes(s) ==
    /\ pc[s] = "l117"
    /\ out' = [out EXCEPT ![s].success = @ + 1]
    /\ session_state' = [session_state EXCEPT ![s] = SetKey(@, "pred_ready", FALSE)]
    /\ Finish(s)
    /\ UNCHANGED <<models, loads, log, trigger, inputs, feedback,
                   calls, lastRun, submits>>

ShowSuccess(s) ==
    /\ pc[s] = "l117"
    /\ out' = [out EXCEPT ![s].success = @ + 1]
    /\ Finish(s)
    /\ UNCHANGED <<models, loads, log, trigger, session_state, inputs, feedback,
                   calls, lastRun, submits>>

----------------------------------------------------------------------------
ScriptStep(s) ==
    \/ LoadModelsCached(s)
    \/ LoadModels(s)
    \/ LoadModelsFails(s)
    \/ InitSessionState(s)
    \/ SkipRunPrediction(s)
    \/ PredictOld(s)
    \/ PredictNew(s)
    \/ PredictFails(s)
    \/ MeasureLatency(s)
    \/ CommitOldPred(s)
    \/ CommitNewPred(s)
    \/ CommitLatency(s)
    \/ CommitInputSummary(s)
    \/ CommitPredReady(s)
    \/ ShowPredictions(s)
    \/ ShowInfo(s)
    \/ SkipSubmitFeedback(s)
    \/ WarnNotReady(s)
    \/ LogV1(s)
    \/ LogV1Fails(s)
    \/ LogV2(s)
    \/ LogV2Fails(s)
    \/ ShowSuccess(s)

UserEvent(s) ==
    \/ OpenPage(s)
    \/ ChangeInput(s)
    \/ ChangeFeedback(s)
    \/ ClickRunPrediction(s)
    \/ ClickSubmitFeedback(s)

Next == \E s \in SingleSession : UserEvent(s) \/ ScriptStep(s)

Spec == Init /\ [][Next]_vars

\* The commit of the input summary on its own: a first Run Prediction of one
\* session stands at line 69, with any of the sampled widget values.
InitSummary ==
    \E w \in SummaryInputs :
        LET l == [old_pred |-> Predict(LoadedModels[1], InputV1(w)),
                  new_pred |-> Predict(LoadedModels[2], InputV2(w)),
                  latency_ms |-> CHOOSE ms \in Latencies : TRUE]
            fresh == InitSessionKeys(NoKeys)
            running(s) == s \in SingleSession
        IN  /\ models = LoadedModels
            /\ loads = 1
            /\ log = <<>>
            /\ pc = [s \in Sessions |-> IF running(s) THEN "l69" ELSE "new"]
            /\ trigger = [s \in Sessions |-> IF running(s) THEN "run" ELSE "none"]
            /\ session_state = [s \in Sessions |->
                  IF running(s)
                  THEN StoreLatency(StoreNewPred(StoreOldPred(fresh, l), l), l)
                  ELSE NoKeys]
            /\ inputs = [s \in Sessions |-> IF running(s) THEN w ELSE DefaultInputs]
            /\ feedback = [s \in Sessions |-> DefaultFeedback]
            /\ locals = [s \in Sessions |-> IF running(s) THEN l ELSE NoLocals]
            /\ out = [s \in Sessions |-> NoOutput]
            /\ calls = [s \in Sessions |-> <<>>]
            /\ lastRun = [s \in Sessions |-> None]
            /\ submits = [s \in Sessions |-> NoSubmits]
            /\ pre = [s \in Sessions |-> IF running(s) THEN fresh ELSE NoKeys]

NextSummary == \E s \in SingleSession : CommitInputSummary(s) \/ CommitPredReady(s)

SpecSummary == InitSummary /\ [][NextSummary]_vars

\* Several browser sessions served by the one process: the script runs of
\* different sessions interleave line by line.  The users leave the feedback
\* widgets at their defaults and stop submitting earlier.
MaxLogMulti == 2

UserEventMulti(s) ==
    \/ OpenPage(s)
    \/ (InputsRendered(s) /\ ~session_state[s]["pred_ready"] /\ ChangeInput(s))
    \/ ClickRunPrediction(s)
    \/ (Len(log) + 2 <= MaxLogMulti /\ ClickSubmitFeedback(s))

NextMulti == \E s \in Sessions : UserEventMulti(s) \/ ScriptStep(s)

SpecMulti == Init /\ [][NextMulti]_vars

----------------------------------------------------------------------------
(* Properties *)

Stored(s, k) == session_state[s][k]

Initialised(s) == DOMAIN session_state[s] = ResultKeys

Ready(s) == Initialised(s) /\ Stored(s, "pred_ready")

\* the script run of s was triggered by Submit Feedback while pred_ready was false
SubmitWhileNotReady(s) ==
    /\ trigger[s] = "submit"
    /\ ~pre[s]["pred_ready"]

\* the script run of s was triggered by Submit Feedback while pred_ready was true
SubmitWhileReady(s) ==
    /\ trigger[s] = "submit"
    /\ pre[s]["pred_ready"]

Completed(s) == lastRun[s] # None

Committed(s) == lastRun[s][1]

\* C1: a Submit Feedback taken while pred_ready is false makes no
\* log_prediction call, shows one warning and no success message, and leaves
\* the five stored fields as they were before it.
C1_SubmitNotReadyRejected ==
    \A s \in Sessions :
        SubmitWhileNotReady(s) =>
            /\ calls[s] = <<>>
            /\ out[s].success = 0
            /\ out[s].warning = (IF pc[s] = "idle" THEN 1 ELSE 0)
            /\ session_state[s] = pre[s]

C1_Witness ==
    \E s \in Sessions :
        /\ SubmitWhileNotReady(s)
        /\ pc[s] = "idle"
        /\ out[s].warning = 1

\* C2: every record passed to log_prediction carries the prediction, latency
\* and input summary committed by a completed Run Prediction of the same
\* session, and neither a call nor the log ever holds None or an empty summary.
C2_LoggedValuesWereCommitted ==
    /\ \A s \in Sessions : \A i \in DOMAIN calls[s] :
          LET rec == calls[s][i].record IN
             /\ Completed(s)
             /\ rec.input_summary = Committed(s).input_summary
             /\ rec.latency_ms = Committed(s).latency_ms
             /\ rec.prediction \in {Committed(s).old_pred, Committed(s).new_pred}
             /\ rec.prediction # None
             /\ rec.latency_ms # None
             /\ rec.input_summary # ""
    /\ \A i \in DOMAIN log :
          /\ log[i].prediction # None
          /\ log[i].latency_ms # None
          /\ log[i].input_summary # ""

\* a second submit, after one whose v2_new append failed
C2_Witness ==
    \E s \in Sessions :
        /\ Len(calls[s]) = 2
        /\ Len(log) = 3

\* C3: a Submit Feedback taken while pred_ready is true makes exactly two
\* log_prediction calls, v1_old first and v2_new second, whatever the outcome
\* of each append.
C3_ExactlyTwoCalls ==
    \A s \in Sessions :
        (SubmitWhileReady(s) /\ pc[s] = "idle") =>
            /\ Len(calls[s]) = 2
            /\ calls[s][1].record.model_version = "v1_old"
            /\ calls[s][2].record.model_version = "v2_new"

\* C4: the v1_old record is (baseline, stored old_pred, Model v1 score and
\* text), the v2_new record is (improved, stored new_pred, Model v2 score and
\* text), and both carry the input summary and latency of the most recent
\* completed Run Prediction, whatever the input widgets show at submit time.
C4_RecordsCarryStoredValues ==
    \A s \in Sessions : \A i \in DOMAIN calls[s] :
        /\ Completed(s)
        /\ i = 1 =>
              calls[s][i].record =
                 [model_version |-> "v1_old", model_type |-> "baseline",
                  input_summary |-> Committed(s).input_summary,
                  prediction |-> Committed(s).old_pred,
                  latency_ms |-> Committed(s).latency_ms,
                  feedback_score |-> feedback[s].feedback_score,
                  feedback_text |-> feedback[s].feedback_text]
        /\ i = 2 =>
              calls[s][i].record =
                 [model_version |-> "v2_new", model_type |-> "improved",
                  input_summary |-> Committed(s).input_summary,
                  prediction |-> Committed(s).new_pred,
                  latency_ms |-> Committed(s).latency_ms,
                  feedback_score |-> feedback[s].feedback_score_v2,
                  feedback_text |-> feedback[s].feedback_text_v2]
        /\ i \in {1, 2}

C4_Witness ==
    \E s \in Sessions :
        /\ Len(calls[s]) = 2
        /\ FormatSummary(inputs[s]) # Committed(s).input_summary
        /\ feedback[s].feedback_score # feedback[s].feedback_score_v2
        /\ feedback[s].feedback_text # feedback[s].feedback_text_v2

\* C5: pred_ready is false until the first Run Prediction completes, it becomes
\* true only by line 70 of a Run Prediction, and once true it stays true.
C5_ReadyIsMonotonic ==
    /\ [](\A s \in Sessions : ~Completed(s) => ~Ready(s))
    /\ [][\A s \in Sessions :
            /\ Ready(s) => Ready(s)'
            /\ (~Ready(s) /\ Ready(s)') => (pc[s] = "l70" /\ trigger[s] = "run")]_vars

\* READY survives a later Run Prediction whose predict call raised
C5_Witness ==
    \E s \in Sessions :
        /\ Ready(s)
        /\ pc[s] = "idle"
        /\ out[s].exception = "predict"

StoredResults(s) ==
    [old_pred |-> Stored(s, "old_pred"), new_pred |-> Stored(s, "new_pred"),
     latency_ms |-> Stored(s, "latency_ms"), input_summary |-> Stored(s, "input_summary")]

NoResults ==
    [old_pred |-> None, new_pred |-> None, latency_ms |-> None, input_summary |-> ""]

\* positions at which lines 66-70 have stored some but not all results
CommitPcs == {"l67", "l68", "l69", "l70"}

\* C6: outside lines 66-70 of the handler (so wherever the display section or
\* a Submit Feedback reads them) the four stored fields are those of one single
\* run, the last completed one, and what is displayed is that run's results.
C6_ResultsOfOneRun ==
    \A s \in Sessions :
        (Initialised(s) /\ pc[s] \notin CommitPcs) =>
            /\ StoredResults(s) = (IF Completed(s) THEN Committed(s) ELSE NoResults)
            /\ out[s].shown # None =>
                  out[s].shown = <<Committed(s).old_pred, Committed(s).new_pred,
                                   Committed(s).latency_ms>>

\* the display section reads the stored results right after a re-run replaced them
C6_Witness ==
    \E s \in Sessions :
        /\ pc[s] = "l73"
        /\ trigger[s] = "run"
        /\ pre[s]["pred_ready"]
        /\ pre[s]["input_summary"] # Stored(s, "input_summary")
        /\ pre[s]["old_pred"] # Stored(s, "old_pred")
        /\ pre[s]["new_pred"] # Stored(s, "new_pred")

\* C7: a Run Prediction in which a predict call raises leaves the five stored
\* fields as they were before the action.
C7_FailedPredictionStoresNothing ==
    \A s \in Sessions :
        out[s].exception = "predict" =>
            /\ pc[s] = "idle"
            /\ trigger[s] = "run"
            /\ session_state[s] = pre[s]

\* the baseline model succeeded, the improved model raised, and the baseline
\* result differs from the stored one
C7_Witness ==
    \E s \in Sessions :
        /\ out[s].exception = "predict"
        /\ DOMAIN locals[s] = {"old_pred"}
        /\ Ready(s)
        /\ Stored(s, "old_pred") # Float(locals[s].old_pred)

\* C8: a failed log_prediction call ends the script run with the exception
\* shown and no success message, is the last call of the run (nothing is
\* retried), and leaves the stored fields unchanged and READY, with the Submit
\* Feedback button available for a retry.
C8_LoggerFailureSurfaced ==
    \A s \in Sessions : \A i \in DOMAIN calls[s] :
        ~calls[s][i].ok =>
            /\ i = Len(calls[s])
            /\ \A j \in 1..(i - 1) :
                  calls[s][j].record.model_version # calls[s][i].record.model_version
            /\ pc[s] = "idle"
            /\ out[s].exception = "log"
            /\ out[s].success = 0
            /\ session_state[s] = pre[s]
            /\ Ready(s)
            /\ FeedbackRendered(s)

C8_Witness ==
    \E s \in Sessions :
        /\ Len(calls[s]) = 2
        /\ calls[s][1].ok
        /\ ~calls[s][2].ok
        /\ out[s].exception = "log"

\* C9: every step of a script run that Run Prediction did not trigger, and the
\* event that starts it, leaves the five stored fields unchanged.
C9_OnlyRunPredictionStores ==
    [][\A s \in Sessions :
          (Initialised(s) /\ trigger'[s] # "run") =>
              session_state'[s] = session_state[s]]_vars

\* a widget-change re-run has completed over stored results
C9_Witness ==
    \E s \in Sessions :
        /\ Ready(s)
        /\ pc[s] = "idle"
        /\ trigger[s] = "none"
        /\ FormatSummary(inputs[s]) # Stored(s, "input_summary")
        /\ feedback[s] # DefaultFeedback

\* C10: whenever pred_ready is true, old_pred, new_pred and latency_ms each
\* hold one value, input_summary is not empty, and a Run Prediction has
\* completed.
C10_ReadyImpliesPopulated ==
    \A s \in Sessions :
        Ready(s) =>
            /\ Len(Stored(s, "old_pred")) = 1
            /\ Len(Stored(s, "new_pred")) = 1
            /\ Len(Stored(s, "latency_ms")) = 1
            /\ Stored(s, "input_summary") # ""
            /\ Completed(s)

\* READY while a later Run Prediction is in the middle of lines 66-70
C10_Witness ==
    \E s \in Sessions :
        /\ Ready(s)
        /\ pc[s] = "l68"


\* C11: with several sessions interleaving, every session has its own five
\* stored fields: a step of one session changes no other session's stored
\* values, last results or call list; the records a Submit Feedback of a
\* session passes to log_prediction carry that session's own stored prediction,
\* latency and summary; and a session that is not ready is rejected whatever
\* the other sessions hold.
C11_SessionsAreIsolated ==
    /\ [](\A s \in Sessions :
            /\ \A i \in DOMAIN calls[s] :
                  LET rec == calls[s][i].record IN
                     /\ Ready(s)
                     /\ rec.input_summary = Stored(s, "input_summary")
                     /\ rec.latency_ms = Stored(s, "latency_ms")
                     /\ rec.prediction =
                          (IF i = 1 THEN Stored(s, "old_pred") ELSE Stored(s, "new_pred"))
            /\ SubmitWhileNotReady(s) =>
                  /\ calls[s] = <<>>
                  /\ out[s].success = 0
                  /\ pc[s] = "idle" => out[s].warning = 1)
    /\ [][\A s \in Sessions :
            pc'[s] = pc[s] =>
                /\ session_state'[s] = session_state[s]
                /\ lastRun'[s] = lastRun[s]
                /\ calls'[s] = calls[s]
                /\ inputs'[s] = inputs[s]
                /\ feedback'[s] = feedback[s]]_vars

\* two READY sessions hold different results, one has logged its own pair and
\* the other has completed a Run Prediction
C11_Witness ==
    \E s, t \in Sessions :
        /\ Ready(s) /\ Ready(t)
        /\ Stored(s, "old_pred") # Stored(t, "old_pred")
        /\ Stored(s, "input_summary") # Stored(t, "input_summary")
        /\ Len(calls[s]) = 2
        /\ trigger[t] = "run" /\ pc[t] = "idle"
        /\ Len(log) = 2


C13_LogIsAppendOnly ==
    [][/\ Len(log') \in {Len(log), Len(log) + 1}
       /\ SubSeq(log', 1, Len(log)) = log
       /\ \A s \in Sessions :
             Len(calls'[s]) = Len(calls[s]) + 1 =>
                LET call == calls'[s][Len(calls'[s])] IN
                   log' = (IF call.ok THEN Append(log, call.record) ELSE log)
       /\ (\A s \in Sessions : Len(calls'[s]) <= Len(calls[s])) => log' = log]_vars

\* a submit has logged the pair of one prediction and a later Run Prediction
\* has replaced the stored results
C13_Witness ==
    \E s \in Sessions :
        /\ Len(log) >= 2
        /\ trigger[s] = "run" /\ pc[s] = "idle"
        /\ Ready(s)
        /\ log[1].input_summary # Stored(s, "input_summary")
        /\ log[1].prediction # Stored(s, "old_pred")


\* a script run of s got past line 18 without a loaded pair, or was stopped there
LoadFailed(s) ==
    \/ out[s].exception = "load"
    \/ models = None /\ pc[s] \notin {"new", "l18"}

RerunCompleted(s) ==
    /\ trigger[s] = "run"
    /\ pc[s] = "idle"
    /\ out[s].exception = ""
    /\ DOMAIN pre[s] = ResultKeys
    /\ pre[s]["pred_ready"]

SummaryStored(s) == pc[s] \in {"l70", "l73"}

\* C16: the summary stored by Run Prediction is the text of the four inputs of
\* that run in the order StartHour, TurnAroundTime, DisplayValue,
\* ProposedProcedure: the default inputs give exactly the text of the claim, and
\* no other input record gives the text stored for the inputs of the run.
C16_SummaryOfTheInputs ==
    \A s \in SingleSession :
        SummaryStored(s) =>
            /\ inputs[s] = [StartHour |-> 8, TurnAroundTime |-> 15,
                            DisplayValue |-> "OR 1",
                            ProposedProcedure |-> "COLOSCP - COLONOSCOPY;"]
                  => Stored(s, "input_summary") =
                       "StartHour=8, TurnAroundTime=15, DisplayValue=OR 1, ProposedProcedure=COLOSCP - COLONOSCOPY;"
            /\ inputs[s] = [StartHour |-> 23, TurnAroundTime |-> 120,
                            DisplayValue |-> "Endo 4",
                            ProposedProcedure |-> "VIDEO LAPAROSCOPIC CHOLECYSTECTOMY;"]
                  => Stored(s, "input_summary") =
                       "StartHour=23, TurnAroundTime=120, DisplayValue=Endo 4, ProposedProcedure=VIDEO LAPAROSCOPIC CHOLECYSTECTOMY;"
            /\ \A w \in SummaryInputs :
                  w # inputs[s] => FormatSummary(w) # Stored(s, "input_summary")

\* the summary of a record other than the defaults is stored and the run has
\* set pred_ready
C16_Witness ==
    \E s \in SingleSession :
        /\ pc[s] = "l73"
        /\ Ready(s)
        /\ inputs[s].StartHour = 11
        /\ inputs[s].TurnAroundTime = 1
        /\ inputs[s].DisplayValue = "OR 12"
        /\ Stored(s, "input_summary") # ""


\* C17: a Run Prediction that completes with the inputs of the previous one
\* leaves old_pred, new_pred, input_summary and pred_ready as that one left
\* them (the latency is measured anew), and a session never holds more than one
\* value under old_pred, new_pred or latency_ms.
C17_IdempotentOverwrite ==
    \A s \in Sessions :
        /\ (RerunCompleted(s) /\ pre[s]["input_summary"] = FormatSummary(inputs[s])) =>
              /\ Stored(s, "old_pred") = pre[s]["old_pred"]
              /\ Stored(s, "new_pred") = pre[s]["new_pred"]
              /\ Stored(s, "input_summary") = pre[s]["input_summary"]
              /\ Stored(s, "pred_ready") = pre[s]["pred_ready"]
        /\ Initialised(s) =>
              /\ Len(Stored(s, "old_pred")) <= 1
              /\ Len(Stored(s, "new_pred")) <= 1
              /\ Len(Stored(s, "latency_ms")) <= 1

\* Run Prediction has completed a second time with the same inputs
C17_Witness ==
    \E s \in Sessions :
        /\ RerunCompleted(s)
        /\ pre[s]["input_summary"] = FormatSummary(inputs[s])
        /\ Stored(s, "old_pred") # None
        /\ Stored(s, "new_pred") # None


\* C18: a script run triggered by Run Prediction makes no log_prediction call,
\* and none of its steps, the click included, changes the log or the feedback
\* scores and texts of the session; the feedback in place is what the calls of
\* a Submit Feedback carry.
C18_RunPredictionKeepsFeedback ==
    /\ [](\A s \in Sessions :
            /\ trigger[s] = "run" => calls[s] = <<>>
            /\ \A i \in DOMAIN calls[s] :
                  LET rec == calls[s][i].record IN
                     /\ rec.feedback_score =
                          (IF i = 1 THEN feedback[s].feedback_score
                                    ELSE feedback[s].feedback_score_v2)
                     /\ rec.feedback_text =
                          (IF i = 1 THEN feedback[s].feedback_text
                                    ELSE feedback[s].feedback_text_v2))
    /\ [][\A s \in Sessions :
            (trigger'[s] = "run" /\ pc'[s] # pc[s]) =>
                /\ feedback'[s] = feedback[s]
                /\ log' = log]_vars

\* Run Prediction has completed again while feedback other than the defaults
\* was in the widgets
C18_Witness ==
    \E s \in Sessions :
        /\ RerunCompleted(s)
        /\ feedback[s] # DefaultFeedback
        /\ Stored(s, "input_summary") # pre[s]["input_summary"]


\* records the READY submits of s have to have appended: two each, one while
\* the latest of them stands between its two calls
RecordsDue(s) == 2 * submits[s].count - (IF pc[s] = "l107" THEN 1 ELSE 0)

RECURSIVE RecordsDueOf(_)
RecordsDueOf(S) ==
    IF S = {} THEN 0
    ELSE LET s == CHOOSE x \in S : TRUE IN RecordsDue(s) + RecordsDueOf(S \ {s})

\* C19: a Submit Feedback taken while READY leaves the five stored fields as
\* they were, so the session stays READY with the same values; when it
\* completes it has made two calls; and as long as no append has failed the
\* log holds two records for every Submit Feedback taken while READY.
C19_SubmitKeepsPrediction ==
    /\ \A s \in Sessions :
          SubmitWhileReady(s) =>
              /\ session_state[s] = pre[s]
              /\ Ready(s)
              /\ out[s].success = 1 => Len(calls[s]) = 2
    /\ (\A s \in Sessions : ~submits[s].failed) =>
          Len(log) = RecordsDueOf(Sessions)

\* a second Submit Feedback on the same stored prediction has completed
C19_Witness ==
    \E s \in Sessions :
        /\ submits[s] = [count |-> 2, failed |-> FALSE]
        /\ pc[s] = "idle"
        /\ out[s].success = 1
        /\ Ready(s)
        /\ Len(log) = 4
        /\ log[1].input_summary = log[3].input_summary

====
